---- MODULE Spec2Model ----
(***************************************************************************)
(* A model of imgconv (src/imgconv.go): Convert, ConvertWithAspect, getCmd, *)
(* scaleWithAspect, GetType and getSvgRes.                                  *)
(*                                                                         *)
(* Four specifications share the variables:                                *)
(*   Spec      one call of Convert or ConvertWithAspect, start to return   *)
(*   ConcSpec  two getCmd calls interleaved over the package-level err     *)
(*   PipeSpec  the feeder goroutine, the subprocess and os/exec's drains   *)
(*             over pipes of finite capacity                               *)
(*   ScaleSpec scaleWithAspect applied to bounded inputs                   *)
(***************************************************************************)
EXTENDS Integers, Sequences, FiniteSets, TLC

\* ------------------------------------------------------------------ bounds
MaxLen == 3
MaxChunk == 2
SniffLimit == 2
MaxDim == 2

VARIABLES
  pc,         \* position of the calling goroutine
  api,        \* "Convert" or "ConvertWithAspect": the function the caller invoked
  input,      \* the bytes of the caller's stream
  heap,       \* the reader objects: data, the buffers, tees and multi-readers
  cdata,      \* Convert's parameter data: the reader it was called with
  w, h,       \* Convert's parameters w and h
  format,     \* the parameter format
  maxRes,     \* ConvertWithAspect's parameter maxRes
  docType,    \* what mimetype detects in the stream's leading bytes
  sniffed,    \* bytes the running io.ReadFull of DetectReader has got so far
  mimetype,   \* the local mimetype
  svgDoc,     \* the attributes svg.ParseSvgFromReader found
  ow, oh,     \* ConvertWithAspect's locals ow and oh
  installed,  \* the programs exec.LookPath resolves
  convCmd, convArgs,   \* what getCmd returned
  lookups,    \* number of getCmd calls made
  spawned,    \* cmd.Start was attempted
  launched,   \* cmd.Start succeeded
  exited,     \* the subprocess has exited
  exitStatus, \* its exit status
  b,          \* the bytes.Buffer b that collects the subprocess's stderr
  byteSlice,  \* what cmd.Output returned
  fpc,        \* position of the feeder goroutine
  stdinBytes, \* every byte the feeder wrote to the stdin pipe, in order
  runErr,     \* the error cmd.Output returned
  ret,        \* what the API call returned: reader and error
  \* ConcSpec
  err,        \* the package-level variable err
  calls,      \* the getCmd calls in progress: locals and position of each
  \* PipeSpec
  mpc,        \* position of the goroutine inside cmd.Output
  proc,       \* the subprocess: notstarted, running, exited or failed (no start)
  fst,        \* the feeder: read (in n.Read), write (in stdin.Write), closed
  fHold,      \* bytes the feeder has read and not yet written
  inLeft,     \* bytes n still yields
  stdinPipe,  \* bytes in the stdin pipe
  subOp,      \* the system call the subprocess is in: idle, read, wout, werr
  subBudget,  \* system calls the subprocess still makes before it exits
  outPipe, errPipe,   \* bytes in the stdout and the stderr pipe
  dOut, dErr, \* os/exec's goroutines copying stdout and stderr: run or done
  \* ScaleSpec
  spc,        \* call (before scaleWithAspect runs) or done
  sIn,        \* the arguments of a scaleWithAspect call
  sOut        \* what it returned

mainVars == <<pc, api, input, heap, cdata, w, h, format, maxRes, docType, sniffed,
              mimetype, svgDoc, ow, oh, installed, convCmd, convArgs, lookups,
              spawned, launched, exited, exitStatus, b, byteSlice, fpc, stdinBytes, runErr, ret>>

concVars == <<err, calls>>

pipeVars == <<mpc, proc, fst, fHold, inLeft, stdinPipe, subOp, subBudget,
              outPipe, errPipe, dOut, dErr>>

scaleVars == <<spc, sIn, sOut>>

vars == <<mainVars, concVars, pipeVars, scaleVars>>

Min(x, y) == IF x < y THEN x ELSE y
Max(x, y) == IF x < y THEN y ELSE x

\* ------------------------------------------------------------- io readers
ReaderIds == {"data", "buf", "tee", "n2", "buf2", "tee2", "n", "cbuf", "ctee", "cn"}

NoReader == [kind |-> "none", pos |-> 0, bytes |-> <<>>, r |-> "", w |-> "", rs |-> <<>>]

\* The caller's stream, pos bytes of it consumed.
Source(p) == [NoReader EXCEPT !.kind = "src", !.pos = p]

\* buf := &bytes.Buffer{}
Buffer == [NoReader EXCEPT !.kind = "buf"]

\* A reader of r that copies nothing into w: C5 must tell it from TeeReader.
TeeReaderNoCopy(r, wr) == [NoReader EXCEPT !.kind = "multi", !.rs = <<r>>]

\* io.TeeReader(r, w)
TeeReader(r, wr) == [NoReader EXCEPT !.kind = "tee", !.r = r, !.w = wr]

\* io.MultiReader(readers...)
MultiReader(rs) == [NoReader EXCEPT !.kind = "multi", !.rs = rs]

\* One Read(p) with len(p) = k on reader id: the heap after it, the bytes it
\* returned, and whether it returned io.EOF (always with no bytes).
RECURSIVE Read(_, _, _)
Read(hp, id, k) ==
  LET o == hp[id] IN
  CASE o.kind = "src" ->
         LET n == Min(k, Len(input) - o.pos) IN
         IF n = 0
         THEN [hp |-> hp, out |-> <<>>, eof |-> TRUE]
         ELSE [hp |-> [hp EXCEPT ![id].pos = o.pos + n],
               out |-> SubSeq(input, o.pos + 1, o.pos + n), eof |-> FALSE]
    [] o.kind = "buf" ->
         LET n == Min(k, Len(o.bytes)) IN
         IF n = 0
         THEN [hp |-> hp, out |-> <<>>, eof |-> TRUE]
         ELSE [hp |-> [hp EXCEPT ![id].bytes = SubSeq(o.bytes, n + 1, Len(o.bytes))],
               out |-> SubSeq(o.bytes, 1, n), eof |-> FALSE]
    [] o.kind = "tee" ->
         LET r == Read(hp, o.r, k) IN
         [hp |-> IF r.out # <<>>
                 THEN [r.hp EXCEPT ![o.w].bytes = @ \o r.out]
                 ELSE r.hp,
          out |-> r.out, eof |-> r.eof]
    [] o.kind = "multi" ->
         IF o.rs = <<>>
         THEN [hp |-> hp, out |-> <<>>, eof |-> TRUE]
         ELSE LET r == Read(hp, Head(o.rs), k) IN
              IF r.eof
              THEN Read([r.hp EXCEPT ![id].rs = Tail(o.rs)], id, k)
              ELSE [hp |-> r.hp, out |-> r.out, eof |-> FALSE]
    [] OTHER -> [hp |-> hp, out |-> <<>>, eof |-> TRUE]

\* Everything reader id still yields: Read until io.EOF.
RECURSIVE ReadAll(_, _)
ReadAll(hp, id) ==
  LET r == Read(hp, id, MaxChunk) IN
  IF r.eof THEN <<>> ELSE r.out \o ReadAll(r.hp, id)

\* ------------------------------------------------------------------ errors
\* A Go error value: nil, or an error with a message.
Nil == [nil |-> TRUE, msg |-> ""]
NewError(m) == [nil |-> FALSE, msg |-> m]

\* ------------------------------------------------------------- strconv.Itoa
DigitStr(d) ==
  CASE d = 0 -> "0" [] d = 1 -> "1" [] d = 2 -> "2" [] d = 3 -> "3" [] d = 4 -> "4"
    [] d = 5 -> "5" [] d = 6 -> "6" [] d = 7 -> "7" [] d = 8 -> "8" [] d = 9 -> "9"

RECURSIVE ItoaNat(_)
ItoaNat(n) == IF n < 10 THEN DigitStr(n) ELSE ItoaNat(n \div 10) \o DigitStr(n % 10)

\* strconv.Itoa: the decimal text of an integer.
Itoa(n) == IF n < 0 THEN "-" \o ItoaNat(-n) ELSE ItoaNat(n)

\* ------------------------------------------------------------------ getCmd
\* The order reversed: C3 must tell it from pref.
prefReversed == <<"convert", "inkscape", "rsvg-convert">>

pref == <<"rsvg-convert", "inkscape", "convert">>

\* res := strconv.Itoa(w)+"x"+strconv.Itoa(h)
res(width, height) == Itoa(width) \o "x" \o Itoa(height)

\* -density for every input format: C8 must tell it from progsConvert.
progsConvertAnyFormat(formatIn, formatOut, width, height) ==
  (IF width > 0 /\ height > 0
   THEN <<"-density", "3072">> ELSE <<>>)
  \o <<"-background", "none", "-resize", res(width, height), "-", formatOut \o ":-">>

\* progs["convert"], with the -density pair put in front for svg input and a
\* positive size.
progsConvert(formatIn, formatOut, width, height) ==
  (IF formatIn = "svg" /\ width > 0 /\ height > 0
   THEN <<"-density", "3072">> ELSE <<>>)
  \o <<"-background", "none", "-resize", res(width, height), "-", formatOut \o ":-">>

\* progs["rsvg-convert"]
progsRsvgConvert(formatOut, width, height) ==
  <<"-w", Itoa(width), "-h", Itoa(height), "-f", formatOut>>

\* progs["inkscape"], with -w and -h appended for a positive size.
progsInkscape(formatOut, width, height) ==
  <<"-p", "--export-type=" \o formatOut, "--export-filename", "-">>
  \o (IF width > 0 /\ height > 0
      THEN <<"-w", Itoa(width), "-h", Itoa(height)>> ELSE <<>>)

progs(name, formatIn, formatOut, width, height) ==
  CASE name = "convert" -> progsConvert(formatIn, formatOut, width, height)
    [] name = "rsvg-convert" -> progsRsvgConvert(formatOut, width, height)
    [] name = "inkscape" -> progsInkscape(formatOut, width, height)

fmtIn(name) ==
  CASE name = "convert" ->
         <<"svg", "png", "xpm", "jxl", "jp2", "jpf",
           "jpg", "gif", "webp", "bmp", "ico", "bpg",
           "dwg", "icns", "heic", "heif", "hdr", "xcf",
           "pat", "gbr">>
    [] name = "rsvg-convert" -> <<"svg">>
    [] name = "inkscape" -> <<"svg">>

fmtOut(name) ==
  CASE name = "convert" ->
         <<"png", "xpm", "jxl", "jp2", "jpf", "gbr",
           "jpg", "gif", "webp", "bmp", "ico", "bpg",
           "dwg", "icns", "heic", "heif", "hdr", "xcf",
           "pat">>
    [] name = "rsvg-convert" -> <<"png", "pdf", "ps", "eps", "svg", "xml">>
    [] name = "inkscape" -> <<"png", "pdf", "ps", "eps", "svg">>

contains(slice, str) == \E i \in 1..Len(slice) : slice[i] = str

\* exec.LookPath(name) on a host where the programs of inst are installed.
LookPath(inst, name) ==
  IF name \in inst
  THEN [path |-> "/usr/bin/" \o name, err |-> Nil]
  ELSE [path |-> "", err |-> NewError("exec: " \o name \o ": executable file not found in $PATH")]

\* The test of getCmd's loop for program name, given the err LookPath left.
Suitable(name, lookErr, formatIn, formatOut) ==
  /\ lookErr = Nil
  /\ contains(fmtIn(name), formatIn)
  /\ contains(fmtOut(name), formatOut)

NoSuitableErr(formatIn, formatOut) ==
  NewError("Failed to find a suitable image conversion program on "
           \o "this machine to convert " \o formatIn \o " to " \o formatOut)

\* getCmd's loop from pref[i] on, in one goroutine.
RECURSIVE getCmdFrom(_, _, _, _, _, _)
getCmdFrom(i, inst, formatIn, formatOut, width, height) ==
  IF i > Len(pref)
  THEN [cmd |-> "", args |-> <<>>, err |-> NoSuitableErr(formatIn, formatOut)]
  ELSE LET look == LookPath(inst, pref[i]) IN
       IF Suitable(pref[i], look.err, formatIn, formatOut)
       THEN [cmd |-> look.path,
             args |-> progs(pref[i], formatIn, formatOut, width, height),
             err |-> Nil]
       ELSE getCmdFrom(i + 1, inst, formatIn, formatOut, width, height)

getCmd(inst, formatIn, formatOut, width, height) ==
  getCmdFrom(1, inst, formatIn, formatOut, width, height)

\* ----------------------------------------------------------------- GetType
\* strings.Replace(s, ".", "", 1) on a text given as its characters, joined
\* into a string.
RECURSIVE Join(_)
Join(cs) == IF cs = <<>> THEN "" ELSE Head(cs) \o Join(Tail(cs))

RECURSIVE DropFirstDot(_)
DropFirstDot(cs) ==
  IF cs = <<>> THEN <<>>
  ELSE IF Head(cs) = "." THEN Tail(cs)
  ELSE <<Head(cs)>> \o DropFirstDot(Tail(cs))

\* GetType on a stream in which mimetype detects m (the category is the part
\* of the MIME type before "/").
GetType(m) ==
  IF m.category # "image"
  THEN [ext |-> "", err |-> NewError("Data magic wasn't detected as an image format")]
  ELSE [ext |-> Join(DropFirstDot(m.extension)), err |-> Nil]

\* ---------------------------------------------------- strconv, strings.Split
Digits == {"0", "1", "2", "3", "4", "5", "6", "7", "8", "9"}

DigitVal(c) ==
  CASE c = "0" -> 0 [] c = "1" -> 1 [] c = "2" -> 2 [] c = "3" -> 3 [] c = "4" -> 4
    [] c = "5" -> 5 [] c = "6" -> 6 [] c = "7" -> 7 [] c = "8" -> 8 [] c = "9" -> 9

RECURSIVE DigitsVal(_, _)
DigitsVal(cs, acc) ==
  IF cs = <<>> THEN acc ELSE DigitsVal(Tail(cs), acc * 10 + DigitVal(Head(cs)))

\* strconv.Atoi on a text given as its characters: the value, 0 with an error
\* when the text is not an optional sign and one or more digits.
Atoi(cs) ==
  LET signed == cs # <<>> /\ Head(cs) \in {"-", "+"}
      body == IF signed THEN Tail(cs) ELSE cs
      ok == body # <<>> /\ \A i \in 1..Len(body) : body[i] \in Digits
      v == DigitsVal(body, 0)
  IN [val |-> IF ~ok THEN 0 ELSE IF signed /\ Head(cs) = "-" THEN -v ELSE v,
      ok |-> ok]

\* strconv.ParseFloat(s, 32) on texts over digits, signs, spaces and letters
\* other than those of "inf", "nan" and exponents: the integer literals are
\* the only texts it accepts, and each is a float32 exactly (below 2^24).
ParseFloat(cs) == Atoi(cs)

\* strings.Split(s, " ")
RECURSIVE SplitFrom(_, _)
SplitFrom(cs, cur) ==
  IF cs = <<>> THEN <<cur>>
  ELSE IF Head(cs) = " " THEN <<cur>> \o SplitFrom(Tail(cs), <<>>)
  ELSE SplitFrom(Tail(cs), Append(cur, Head(cs)))

Split(cs) == SplitFrom(cs, <<>>)

\* --------------------------------------------------------------- getSvgRes
\* getSvgRes on what svg.ParseSvgFromReader returns: doc.err, or the Width,
\* Height and ViewBox attributes. panic: an index of res out of range.
getSvgRes(doc) ==
  IF doc.err
  THEN [w |-> -1, h |-> -1, err |-> NewError("svg: parse error"), panic |-> FALSE]
  ELSE
    LET w0 == Atoi(doc.Width).val
        h0 == Atoi(doc.Height).val
        fromBox == w0 < 1 \/ h0 < 1
        r == Split(doc.ViewBox)
        oob == fromBox /\ Len(r) < 4
        x1 == ParseFloat(r[1]).val
        x2 == ParseFloat(r[3]).val
        y1 == ParseFloat(r[2]).val
        y2 == ParseFloat(r[4]).val
        w1 == IF fromBox THEN x2 - x1 ELSE w0
        h1 == IF fromBox THEN y2 - y1 ELSE h0
    IN IF oob
       THEN [w |-> 0, h |-> 0, err |-> Nil, panic |-> TRUE]
       ELSE IF w1 > 0 /\ h1 > 0
       THEN [w |-> w1, h |-> h1, err |-> Nil, panic |-> FALSE]
       ELSE [w |-> -1, h |-> -1,
             err |-> NewError("Failed to get size information from image"),
             panic |-> FALSE]

\* ------------------------------------------------------------------ float32
\* A non-negative float32 is [m, k]: the value m * 2^(-k), m odd or 0, m below
\* 2^24. Exact on the model's ranges (products below 2^31).
RECURSIVE Norm(_, _)
Norm(m, k) == IF m # 0 /\ m % 2 = 0 THEN Norm(m \div 2, k - 1) ELSE [m |-> m, k |-> k]

\* float32(n) for an int 0 <= n < 2^24.
F32Int(n) == Norm(n, 0)

\* The least k >= 0 with p * 2^k >= q * 2^23.
RECURSIVE ShiftUp(_, _, _)
ShiftUp(p, q, k) == IF p * 2^k >= q * 2^23 THEN k ELSE ShiftUp(p, q, k + 1)

\* float32(p) / float32(q) for ints 0 < p, q: the quotient rounded to 24
\* bits, ties to even.
F32Div(p, q) ==
  LET k == ShiftUp(p, q, 0)
      n == (p * 2^k) \div q
      r == (p * 2^k) % q
      up == 2 * r > q \/ (2 * r = q /\ n % 2 = 1)
  IN Norm(IF up THEN n + 1 ELSE n, k)

\* The least s >= 0 with p \div 2^s < 2^24.
RECURSIVE ShiftDown(_, _)
ShiftDown(p, s) == IF p \div 2^s < 2^24 THEN s ELSE ShiftDown(p, s + 1)

\* x * y in float32: the product rounded to 24 bits, ties to even.
F32Mul(x, y) ==
  LET p == x.m * y.m
      s == ShiftDown(p, 0)
      n == p \div 2^s
      r == p % 2^s
      up == s > 0 /\ (2 * r > 2^s \/ (2 * r = 2^s /\ n % 2 = 1))
  IN Norm(IF up THEN n + 1 ELSE n, x.k + y.k - s)

\* x < y in float32.
F32Less(x, y) ==
  LET d == x.k - y.k IN
  IF d >= 0
  THEN (IF d > 30 THEN 0 ELSE x.m \div 2^d) < y.m
  ELSE y.m > 0 /\ x.m <= (IF -d > 30 THEN 0 ELSE (y.m - 1) \div 2^(-d))

\* int(x): truncation toward zero.
F32ToInt(x) ==
  IF x.k <= 0 THEN x.m * 2^(-x.k)
  ELSE IF x.k > 30 THEN 0 ELSE x.m \div 2^x.k

\* --------------------------------------------------------- scaleWithAspect
\* The comparison of the ratios turned round: C7 must tell it from
\* scaleWithAspect.
scaleWithAspectTurned(width, height, maxr) ==
  LET wratio == F32Div(width, height)
      hratio == F32Div(height, width)
  IN IF F32Less(hratio, wratio)
     THEN [w |-> F32ToInt(F32Mul(F32Int(maxr), wratio)), h |-> maxr]
     ELSE [w |-> maxr, h |-> F32ToInt(F32Mul(F32Int(maxr), hratio))]

scaleWithAspect(width, height, maxr) ==
  LET wratio == F32Div(width, height)
      hratio == F32Div(height, width)
  IN IF F32Less(wratio, hratio)
     THEN [w |-> F32ToInt(F32Mul(F32Int(maxr), wratio)), h |-> maxr]
     ELSE [w |-> maxr, h |-> F32ToInt(F32Mul(F32Int(maxr), hratio))]

\* ------------------------------------------------- the inputs of one call
\* Streams of distinct bytes: a byte lost, repeated or out of order shows.
Streams == {[i \in 1..n |-> i] : n \in 0..MaxLen}

\* What mimetype.DetectReader can find: the MIME category and m.Extension().
DocTypes ==
  { [category |-> "image", extension |-> <<".", "s", "v", "g">>],
    [category |-> "image", extension |-> <<".", "p", "n", "g">>],
    [category |-> "text", extension |-> <<".", "t", "x", "t">>] }

\* The width and height arguments tried: -2 .. MaxDim.
Dims == (-2)..MaxDim

OutFormats == {"png", "pdf", "xml", "gif", "tiff"}

Programs == {pref[i] : i \in 1..Len(pref)}

\* Attribute texts of the root element of an svg document.
Widths == {<<>>, <<"2">>, <<"0">>, <<"2", "q">>}
Heights == {<<>>, <<"1">>, <<"3">>}
ViewBoxes ==
  { <<>>,
    <<"0", " ", "0">>,
    <<"0", " ", "0", " ", "2", " ", "1">>,
    <<"-", "1", " ", "-", "1", " ", "1", " ", "2">>,
    <<"0", " ", "0", " ", "0", " ", "0">>,
    <<"1", " ", "1", " ", "q", " ", "3">> }

NoDoc == [err |-> FALSE, Width |-> <<>>, Height |-> <<>>, ViewBox |-> <<>>]

\* What svg.ParseSvgFromReader can return: an error, or the attributes.
SvgDocs ==
  {[NoDoc EXCEPT !.err = TRUE]}
  \cup [err : {FALSE}, Width : Widths, Height : Heights, ViewBox : ViewBoxes]

\* What a subprocess can leave behind: stdout bytes (0 is no byte of any
\* input stream) and stderr text.
Outputs == {<<>>, <<0>>}
StderrTexts == {"", "bad input"}

NoRet == [reader |-> "", err |-> Nil]

\* ---------------------------------------------------------------- one call
\* The state before any call, on a host with the programs inst, holding a
\* stream in and detecting the type t in it.
MainStart(in, t, inst) ==
  /\ pc = "idle"
  /\ api = ""
  /\ input = in
  /\ docType = t
  /\ installed = inst
  /\ heap = [id \in ReaderIds |-> IF id = "data" THEN Source(0) ELSE NoReader]
  /\ cdata = ""
  /\ w = 0 /\ h = 0 /\ format = "" /\ maxRes = 0
  /\ sniffed = 0 /\ mimetype = ""
  /\ svgDoc = NoDoc /\ ow = 0 /\ oh = 0
  /\ convCmd = "" /\ convArgs = <<>> /\ lookups = 0
  /\ spawned = FALSE /\ launched = FALSE /\ exited = FALSE /\ exitStatus = 0
  /\ b = "" /\ byteSlice = <<>> /\ fpc = "none" /\ stdinBytes = <<>>
  /\ runErr = Nil /\ ret = NoRet

MainInit ==
  \E in \in Streams, t \in DocTypes, inst \in SUBSET Programs :
    /\ Len(in) = 0 => t.category # "image"
    /\ MainStart(in, t, inst)

\* A step of one call leaves the other specifications' variables alone.
MainOnly == UNCHANGED <<concVars, pipeVars, scaleVars>>

\* The caller invokes Convert(data, width, height, f).
CallConvert ==
  /\ MainOnly
  /\ pc = "idle"
  /\ \E width \in Dims, height \in Dims, f \in OutFormats :
       /\ w' = width /\ h' = height /\ format' = f
  /\ api' = "Convert"
  /\ cdata' = "data"
  /\ pc' = "Convert"
  /\ UNCHANGED <<input, heap, maxRes, docType, sniffed, mimetype, svgDoc, ow, oh,
                 installed, convCmd, convArgs, lookups, spawned, launched, exited,
                 exitStatus, b, byteSlice, fpc, stdinBytes, runErr, ret>>

\* The caller invokes ConvertWithAspect(data, m, f): the three-way split.
CallConvertWithAspect ==
  /\ MainOnly
  /\ pc = "idle"
  /\ \E m \in 1..MaxDim, f \in OutFormats :
       /\ maxRes' = m /\ format' = f
  /\ api' = "ConvertWithAspect"
  /\ heap' = [heap EXCEPT !["buf"] = Buffer,
                          !["tee"] = TeeReader("data", "buf"),
                          !["n2"] = MultiReader(<<"buf", "data">>),
                          !["buf2"] = Buffer,
                          !["tee2"] = TeeReader("n2", "buf2"),
                          !["n"] = MultiReader(<<"buf2", "n2">>)]
  /\ sniffed' = 0
  /\ pc' = "a_GetType"
  /\ UNCHANGED <<input, cdata, w, h, docType, mimetype, svgDoc, ow, oh,
                 installed, convCmd, convArgs, lookups, spawned, launched, exited,
                 exitStatus, b, byteSlice, fpc, stdinBytes, runErr, ret>>

\* The check with the test of the height against -1 left out: C2 must tell it
\* from InvalidResolution.
InvalidResolutionNoHeightFloor(width, height) ==
  width = 0 \/ height = 0 \/ width < -1

\* Resolution cannot be 0 or less than -1.
InvalidResolution(width, height) ==
  width = 0 \/ height = 0 \/ width < -1 \/ height < -1

InvalidResolutionErr ==
  NewError("Invalid resolution; must either be -1 (native resolution) or above 0")

\* Convert's first lines: the check of w and h, then the two-way split.
ConvertEnter ==
  /\ MainOnly
  /\ pc = "Convert"
  /\ IF InvalidResolution(w, h)
     THEN /\ ret' = [reader |-> cdata, err |-> InvalidResolutionErr]
          /\ pc' = "done"
          /\ UNCHANGED <<heap, sniffed>>
     ELSE /\ heap' = [heap EXCEPT !["cbuf"] = Buffer,
                                  !["ctee"] = TeeReader(cdata, "cbuf"),
                                  !["cn"] = MultiReader(<<"cbuf", cdata>>)]
          /\ sniffed' = 0
          /\ pc' = "c_GetType"
          /\ UNCHANGED ret
  /\ UNCHANGED <<api, input, cdata, w, h, format, maxRes, docType, mimetype, svgDoc,
                 ow, oh, installed, convCmd, convArgs, lookups, spawned, launched,
                 exited, exitStatus, b, byteSlice, fpc, stdinBytes, runErr>>

\* One Read of mime.DetectReader's io.ReadFull through the tee, short of the
\* read limit and of io.EOF.
SniffRead ==
  /\ MainOnly
  /\ pc \in {"a_GetType", "c_GetType"}
  /\ sniffed < SniffLimit
  /\ \E k \in 1..Min(MaxChunk, SniffLimit - sniffed) :
       LET r == Read(heap, IF pc = "a_GetType" THEN "tee" ELSE "ctee", k) IN
       /\ ~r.eof
       /\ heap' = r.hp
       /\ sniffed' = sniffed + Len(r.out)
  /\ UNCHANGED <<pc, api, input, cdata, w, h, format, maxRes, docType, mimetype,
                 svgDoc, ow, oh, installed, convCmd, convArgs, lookups, spawned,
                 launched, exited, exitStatus, b, byteSlice, fpc, stdinBytes,
                 runErr, ret>>

\* io.ReadFull is over: the limit is reached, or the next Read is io.EOF.
SniffOver ==
  \/ sniffed = SniffLimit
  \/ Read(heap, IF pc = "a_GetType" THEN "tee" ELSE "ctee", 1).eof

\* ConvertWithAspect, GetType(tee) returned: its error is not looked at.
AspectGetType ==
  /\ MainOnly
  /\ pc = "a_GetType"
  /\ SniffOver
  /\ LET t == GetType(docType) IN
     /\ mimetype' = t.ext
     /\ IF t.ext = "svg"
        THEN /\ pc' = "a_getSvgRes"
             /\ UNCHANGED <<w, h, cdata>>
        ELSE /\ w' = maxRes /\ h' = maxRes
             /\ cdata' = "n"
             /\ pc' = "Convert"
  /\ UNCHANGED <<api, input, heap, format, maxRes, docType, sniffed, svgDoc, ow, oh,
                 installed, convCmd, convArgs, lookups, spawned, launched, exited,
                 exitStatus, b, byteSlice, fpc, stdinBytes, runErr, ret>>

\* One Read of the svg parser through tee2.
ParseRead ==
  /\ MainOnly
  /\ pc = "a_getSvgRes"
  /\ \E k \in 1..MaxChunk :
       LET r == Read(heap, "tee2", k) IN
       /\ ~r.eof
       /\ heap' = r.hp
  /\ UNCHANGED <<pc, api, input, cdata, w, h, format, maxRes, docType, sniffed,
                 mimetype, svgDoc, ow, oh, installed, convCmd, convArgs, lookups,
                 spawned, launched, exited, exitStatus, b, byteSlice, fpc,
                 stdinBytes, runErr, ret>>

\* getSvgRes returns (or panics); on success scaleWithAspect and the call of
\* Convert(n, w, h, format).
AspectGetSvgRes ==
  /\ MainOnly
  /\ pc = "a_getSvgRes"
  /\ \E doc \in SvgDocs :
       LET g == getSvgRes(doc) IN
       IF g.panic
       THEN /\ pc' = "panic"
            /\ svgDoc' = doc
            /\ UNCHANGED <<ow, oh, w, h, cdata, ret>>
       ELSE IF g.err # Nil
       THEN /\ pc' = "done"
            /\ svgDoc' = doc
            /\ ret' = [reader |-> "n", err |-> g.err]
            /\ UNCHANGED <<ow, oh, w, h, cdata>>
       ELSE /\ ow' = g.w /\ oh' = g.h
            /\ w' = scaleWithAspect(g.w, g.h, maxRes).w
            /\ h' = scaleWithAspect(g.w, g.h, maxRes).h
            /\ cdata' = "n"
            /\ pc' = "Convert"
            /\ UNCHANGED <<svgDoc, ret>>
  /\ UNCHANGED <<api, input, heap, format, maxRes, docType, sniffed, mimetype,
                 installed, convCmd, convArgs, lookups, spawned, launched, exited,
                 exitStatus, b, byteSlice, fpc, stdinBytes, runErr>>

\* Convert, GetType(tee) returned.
ConvertGetType ==
  /\ MainOnly
  /\ pc = "c_GetType"
  /\ SniffOver
  /\ LET t == GetType(docType) IN
     IF t.err # Nil
     THEN /\ ret' = [reader |-> "cn", err |-> t.err]
          /\ pc' = "done"
          /\ UNCHANGED mimetype
     ELSE /\ mimetype' = t.ext
          /\ pc' = "c_getCmd"
          /\ UNCHANGED ret
  /\ UNCHANGED <<api, input, heap, cdata, w, h, format, maxRes, docType, sniffed,
                 svgDoc, ow, oh, installed, convCmd, convArgs, lookups, spawned,
                 launched, exited, exitStatus, b, byteSlice, fpc, stdinBytes, runErr>>

\* Convert, getCmd(mimetype, format, w, h) returned.
ConvertGetCmd ==
  /\ MainOnly
  /\ pc = "c_getCmd"
  /\ lookups' = lookups + 1
  /\ LET c == getCmd(installed, mimetype, format, w, h) IN
     /\ convCmd' = c.cmd
     /\ convArgs' = c.args
     /\ IF c.err # Nil
        THEN /\ ret' = [reader |-> "cn", err |-> c.err]
             /\ pc' = "done"
        ELSE /\ pc' = "c_Command"
             /\ UNCHANGED ret
  /\ UNCHANGED <<api, input, heap, cdata, w, h, format, maxRes, docType, sniffed,
                 mimetype, svgDoc, ow, oh, installed, spawned, launched, exited,
                 exitStatus, b, byteSlice, fpc, stdinBytes, runErr>>

\* exec.Command, StdinPipe, cmd.Stderr = &b, and the go statement.
ConvertCommand ==
  /\ MainOnly
  /\ pc = "c_Command"
  /\ fpc' = "copy"
  /\ pc' = "c_Output"
  /\ UNCHANGED <<api, input, heap, cdata, w, h, format, maxRes, docType, sniffed,
                 mimetype, svgDoc, ow, oh, installed, convCmd, convArgs, lookups,
                 spawned, launched, exited, exitStatus, b, byteSlice, stdinBytes,
                 runErr, ret>>

LaunchErr == NewError("fork/exec: no such file or directory")
ExitErr == NewError("exit status 1")

\* cmd.Output starts the subprocess, or fails to (the program went away
\* after LookPath): then it returns the launch error, with both ends of the
\* stdin pipe closed.
OutputStart ==
  /\ MainOnly
  /\ pc = "c_Output"
  /\ spawned' = TRUE
  /\ \E ok \in BOOLEAN :
       /\ launched' = ok
       /\ IF ok
          THEN /\ pc' = "c_Wait"
               /\ UNCHANGED runErr
          ELSE /\ pc' = "c_Return"
               /\ runErr' = LaunchErr
  /\ UNCHANGED <<api, input, heap, cdata, w, h, format, maxRes, docType, sniffed,
                 mimetype, svgDoc, ow, oh, installed, convCmd, convArgs, lookups,
                 exited, exitStatus, b, byteSlice, fpc, stdinBytes, ret>>

\* The subprocess exits, however much of its stdin it has read, leaving its
\* stdout and stderr in the buffers of os/exec.
SubprocessExit ==
  /\ MainOnly
  /\ launched /\ ~exited
  /\ exited' = TRUE
  /\ \E st \in {0, 1}, text \in StderrTexts, out \in Outputs :
       /\ exitStatus' = st
       /\ b' = text
       /\ byteSlice' = out
  /\ UNCHANGED <<pc, api, input, heap, cdata, w, h, format, maxRes, docType, sniffed,
                 mimetype, svgDoc, ow, oh, installed, convCmd, convArgs, lookups,
                 spawned, launched, fpc, stdinBytes, runErr, ret>>

\* cmd.Output returns after the exit: an *ExitError for a non-zero status.
OutputWait ==
  /\ MainOnly
  /\ pc = "c_Wait"
  /\ exited
  /\ runErr' = IF exitStatus # 0 THEN ExitErr ELSE Nil
  /\ pc' = "c_Return"
  /\ UNCHANGED <<api, input, heap, cdata, w, h, format, maxRes, docType, sniffed,
                 mimetype, svgDoc, ow, oh, installed, convCmd, convArgs, lookups,
                 spawned, launched, exited, exitStatus, b, byteSlice, fpc,
                 stdinBytes, ret>>

\* The error of cmd.Output returned as it is: C4 must tell it from ConvertErr.
ConvertErrUnwrapped(e, stderrText) == e

\* if err != nil { err = errors.New(b.String()) }
ConvertErr(e, stderrText) == IF e # Nil THEN NewError(stderrText) ELSE e

\* Convert's last lines: return stdout, err.
ConvertReturn ==
  /\ MainOnly
  /\ pc = "c_Return"
  /\ ret' = [reader |-> "stdout", err |-> ConvertErr(runErr, b)]
  /\ pc' = "done"
  /\ UNCHANGED <<api, input, heap, cdata, w, h, format, maxRes, docType, sniffed,
                 mimetype, svgDoc, ow, oh, installed, convCmd, convArgs, lookups,
                 spawned, launched, exited, exitStatus, b, byteSlice, fpc,
                 stdinBytes, runErr>>

\* The stdin pipe takes a write: it has a read end open (the parent's before
\* the start, the subprocess's while it runs).
StdinOpen == ~(spawned /\ ~launched) /\ ~exited

\* One round of the feeder's io.Copy(stdin, n): a Read of n, then the Write.
\* io.EOF ends the copy; a failed Write ends it with the bytes read dropped.
\* Either way the deferred stdin.Close() runs.
FeederCopy ==
  /\ MainOnly
  /\ fpc = "copy"
  /\ \E k \in 1..MaxChunk :
       LET r == Read(heap, "cn", k) IN
       /\ heap' = r.hp
       /\ IF r.eof
          THEN /\ fpc' = "eof"
               /\ UNCHANGED stdinBytes
          ELSE IF StdinOpen
          THEN /\ stdinBytes' = stdinBytes \o r.out
               /\ UNCHANGED fpc
          ELSE /\ fpc' = "failed"
               /\ UNCHANGED stdinBytes
  /\ UNCHANGED <<pc, api, input, cdata, w, h, format, maxRes, docType, sniffed,
                 mimetype, svgDoc, ow, oh, installed, convCmd, convArgs, lookups,
                 spawned, launched, exited, exitStatus, b, byteSlice, runErr, ret>>

MainNext ==
  \/ CallConvert
  \/ CallConvertWithAspect
  \/ ConvertEnter
  \/ SniffRead
  \/ AspectGetType
  \/ ParseRead
  \/ AspectGetSvgRes
  \/ ConvertGetType
  \/ ConvertGetCmd
  \/ ConvertCommand
  \/ OutputStart
  \/ SubprocessExit
  \/ OutputWait
  \/ ConvertReturn
  \/ FeederCopy

\* The variables of the other specifications, at rest.
ConcIdle == err = Nil /\ calls = <<>>

PipeIdle ==
  /\ mpc = "none" /\ proc = "none" /\ fst = "none" /\ fHold = 0 /\ inLeft = 0
  /\ stdinPipe = 0 /\ subOp = "none" /\ subBudget = 0
  /\ outPipe = 0 /\ errPipe = 0 /\ dOut = "none" /\ dErr = "none"

ScaleIdle ==
  /\ spc = "none"
  /\ sIn = [width |-> 0, height |-> 0, maxRes |-> 0]
  /\ sOut = [w |-> 0, h |-> 0]

Init == MainInit /\ ConcIdle /\ PipeIdle /\ ScaleIdle

Spec == Init /\ [][MainNext]_vars

\* The bytes the returned reader yields when read to io.EOF.
RetBytes == IF ret.reader = "stdout" THEN byteSlice ELSE ReadAll(heap, ret.reader)


\* ------------------------------------------------------------------ claims
IsPrefix(s, t) == Len(s) <= Len(t) /\ SubSeq(t, 1, Len(s)) = s

\* Convert was given a resolution it rejected.
Rejected == pc = "done" /\ ret.err = InvalidResolutionErr

\* Convert got past its check of the resolution.
Validated ==
  \/ pc \in {"c_GetType", "c_getCmd", "c_Command", "c_Output", "c_Wait", "c_Return"}
  \/ pc = "done" /\ ret.reader \in {"cn", "stdout"}

\* Convert ran cmd.Output and returned.
Ran == pc = "done" /\ ret.reader = "stdout"

\* C1: whenever Convert or ConvertWithAspect returns a non-nil error, the
\* reader it returns yields exactly the bytes of the caller's stream, from the
\* first byte.
C1_ErrorReturnsOriginal ==
  (pc = "done" /\ ret.err # Nil) => RetBytes = input

\* C2 as claimed: Convert lets a resolution through only when both values are
\* positive or both are -1, and a rejection comes before any byte is read, any
\* tool is looked up and any subprocess is started.
C2_OnlyBothPositiveOrBothNative ==
  /\ Validated => ((w > 0 /\ h > 0) \/ (w = -1 /\ h = -1))
  /\ Rejected => (lookups = 0 /\ ~spawned /\ fpc = "none")

\* C2 amended: Convert rejects a resolution exactly when one of the values is 0
\* or below -1 (so -1 with a positive value passes); a rejection returns the
\* reader Convert was given, before any tool is looked up, any subprocess is
\* started and, in a direct call, any byte of the stream is read.
C2_RejectsZeroAndBelowNative ==
  /\ Validated => (w # 0 /\ h # 0 /\ w >= -1 /\ h >= -1)
  /\ Rejected =>
       /\ w = 0 \/ h = 0 \/ w < -1 \/ h < -1
       /\ ret.reader = cdata
       /\ lookups = 0 /\ ~spawned /\ fpc = "none"
       /\ api = "Convert" => heap["data"].pos = 0

C2_Witness ==
  /\ Rejected /\ api = "Convert" /\ w = -1 /\ h = -2
  /\ Len(input) = MaxLen /\ RetBytes = input

\* Program i of the fixed order is installed and lists both formats.
Meets(name) ==
  /\ name \in installed
  /\ \E i \in 1..Len(fmtIn(name)) : fmtIn(name)[i] = mimetype
  /\ \E i \in 1..Len(fmtOut(name)) : fmtOut(name)[i] = format

\* C3: getCmd returns the first program in the order rsvg-convert, inkscape,
\* convert that is installed and lists formatIn among its inputs and formatOut
\* among its outputs, with that program's argument list; it returns the error
\* naming both formats exactly when no program meets the three conditions.
C3_FirstSuitableProgram ==
  lookups = 1 =>
    LET order == <<"rsvg-convert", "inkscape", "convert">>
        ok == {i \in 1..3 : Meets(order[i])}
    IN IF ok = {}
       THEN /\ convCmd = "" /\ convArgs = <<>>
            /\ pc = "done"
            /\ ret.err = [nil |-> FALSE,
                          msg |-> "Failed to find a suitable image conversion program on this machine to convert "
                                  \o mimetype \o " to " \o format]
       ELSE LET first == CHOOSE i \in ok : \A j \in ok : i <= j IN
            /\ convCmd = "/usr/bin/" \o order[first]
            /\ convArgs = progs(order[first], mimetype, format, w, h)
            /\ pc = "done" => Ran

\* inkscape is chosen: rsvg-convert, ahead of it, is not installed, and
\* convert, which also qualifies, comes after it.
C3_Witness ==
  /\ lookups = 1
  /\ installed = {"inkscape", "convert"}
  /\ mimetype = "svg" /\ format = "png" /\ w = 2 /\ h = 1
  /\ convCmd = "/usr/bin/inkscape"
  /\ convArgs = <<"-p", "--export-type=png", "--export-filename", "-",
                  "-w", "2", "-h", "1">>

\* C4 as claimed: after the subprocess, the error is non-nil and carries the
\* stderr text whenever the exit status is non-zero or stderr is non-empty,
\* nil only when the status is 0 and stderr is empty; a launch failure is
\* returned as the launch error.
C4_ErrorOnStatusOrStderr ==
  Ran =>
    /\ (launched /\ (exitStatus # 0 \/ b # "")) => ret.err = [nil |-> FALSE, msg |-> b]
    /\ (launched /\ ret.err = Nil) => (exitStatus = 0 /\ b = "")
    /\ ~launched => ret.err = LaunchErr

\* C4 amended: the error is non-nil exactly when cmd.Output returned an error
\* (a non-zero exit status or a launch failure), and then its message is the
\* text of the stderr buffer (empty after a launch failure, whose own error is
\* dropped); with exit status 0 the error is nil even when stderr is non-empty.
C4_ErrorOnStatusOnly ==
  Ran =>
    /\ (launched /\ exitStatus # 0) => ret.err = [nil |-> FALSE, msg |-> b]
    /\ (launched /\ exitStatus = 0) => ret.err = Nil
    /\ ~launched => ret.err = [nil |-> FALSE, msg |-> ""]

C4_Witness ==
  /\ Ran /\ launched /\ exitStatus = 1 /\ b = "bad input"
  /\ ret.err = [nil |-> FALSE, msg |-> "bad input"]

\* C5: whatever the sniffing (and the svg parser) consumed, the bytes written
\* to the subprocess's stdin are the caller's stream: a prefix of it at every
\* moment, with the rest still to come from n, and all of it once the copy has
\* reached io.EOF.
C5_StdinIsOriginal ==
  /\ IsPrefix(stdinBytes, input)
  /\ fpc = "copy" => stdinBytes \o ReadAll(heap, "cn") = input
  /\ fpc = "eof" => stdinBytes = input

\* The three-way split was read at every level and the stream outlasts the sniff.
C5_Witness ==
  /\ fpc = "eof" /\ api = "ConvertWithAspect" /\ mimetype = "svg"
  /\ Len(input) = MaxLen /\ stdinBytes = input
  /\ heap["data"].pos = Len(input)

\* computeDpi of the design: 96 when an argument is not positive, otherwise
\* 96 * min(dstW / maxRef, dstH / maxRef) with maxRef = max(srcW, srcH).
computeDpi(srcW, srcH, dstW, dstH) ==
  IF srcW <= 0 \/ srcH <= 0 \/ dstW <= 0 \/ dstH <= 0
  THEN 96
  ELSE 96 * Min(dstW \div Max(srcW, srcH), dstH \div Max(srcW, srcH))

\* getCmd chose ImageMagick's convert.
ConvertSelected == lookups = 1 /\ convCmd = "/usr/bin/convert"

HasDensity == \E i \in 1..Len(convArgs) : convArgs[i] = "-density"

\* C8 as claimed: convert's arguments carry -density, ahead of -resize, exactly
\* for svg input with both dimensions positive, and its value is computeDpi of
\* the source and target sizes (stated where getSvgRes has read the source's
\* size into ow and oh).
C8_DensityIsComputed ==
  (ConvertSelected /\ ow > 0 /\ oh > 0) =>
    /\ HasDensity <=> (mimetype = "svg" /\ w > 0 /\ h > 0)
    /\ HasDensity =>
         \E i, j \in 1..Len(convArgs) :
           /\ i + 1 < j
           /\ convArgs[i] = "-density"
           /\ convArgs[i + 1] = Itoa(computeDpi(ow, oh, w, h))
           /\ convArgs[j] = "-resize"

\* C8 amended: convert's arguments carry -density, ahead of -resize, exactly
\* for svg input with both dimensions positive, and its value is always 3072,
\* whatever the source and target sizes.
C8_DensityIsConstant ==
  ConvertSelected =>
    /\ HasDensity <=> (mimetype = "svg" /\ w > 0 /\ h > 0)
    /\ HasDensity =>
         convArgs = <<"-density", "3072", "-background", "none",
                      "-resize", Itoa(w) \o "x" \o Itoa(h), "-", format \o ":-">>
    /\ ~HasDensity =>
         convArgs = <<"-background", "none",
                      "-resize", Itoa(w) \o "x" \o Itoa(h), "-", format \o ":-">>

C8_Witness ==
  /\ ConvertSelected /\ api = "ConvertWithAspect" /\ mimetype = "svg"
  /\ ow = 2 /\ oh = 1 /\ w = 2 /\ h = 1
  /\ convArgs[1] = "-density" /\ convArgs[2] = "3072"

\* C10: for every svg given to ConvertWithAspect, getSvgRes yields a positive
\* width and height or ConvertWithAspect returns an error: it does not crash,
\* and scaleWithAspect and the subprocess run only on positive source sizes.
C10_MetricsPositiveOrError ==
  /\ pc # "panic"
  /\ (api = "ConvertWithAspect" /\ mimetype = "svg" /\ (Validated \/ Rejected \/ pc = "Convert"))
       => (ow > 0 /\ oh > 0)

\* ------------------------------------------- ConcSpec: two getCmd calls
NCalls == 2

\* getCmd has not returned yet.
NoResult == [cmd |-> "", args |-> <<>>, err |-> Nil]

ConcInit ==
  /\ \E inst \in SUBSET Programs :
       MainStart(<<>>, [category |-> "text", extension |-> <<".", "t", "x", "t">>], inst)
  /\ err = Nil
  /\ calls \in [1..NCalls ->
                 [pc : {"LookPath"}, i : {1}, formatIn : {"svg", "png"},
                  formatOut : {"png", "pdf"}, w : {1}, h : {1},
                  cmd : {""}, out : {NoResult}]]
  /\ PipeIdle /\ ScaleIdle

\* cmd, err = exec.LookPath(i): cmd is the call's own, err the package's.
ConcLookPath(c) ==
  /\ calls[c].pc = "LookPath"
  /\ LET look == LookPath(installed, pref[calls[c].i]) IN
     /\ err' = look.err
     /\ calls' = [calls EXCEPT ![c].cmd = look.path, ![c].pc = "test"]
  /\ UNCHANGED <<mainVars, pipeVars, scaleVars>>

\* err == nil && contains(fmtIn[i], formatIn) && contains(fmtOut[i], formatOut),
\* on the err of the moment; then the return, the next round, or the end of
\* the loop and the error return.
ConcTest(c) ==
  /\ calls[c].pc = "test"
  /\ LET k == calls[c] IN
     calls' =
       [calls EXCEPT ![c] =
         IF Suitable(pref[k.i], err, k.formatIn, k.formatOut)
         THEN [k EXCEPT !.pc = "done",
                        !.out = [cmd |-> k.cmd,
                                 args |-> progs(pref[k.i], k.formatIn, k.formatOut, k.w, k.h),
                                 err |-> Nil]]
         ELSE IF k.i = Len(pref)
         THEN [k EXCEPT !.pc = "done",
                        !.out = [cmd |-> "", args |-> <<>>,
                                 err |-> NoSuitableErr(k.formatIn, k.formatOut)]]
         ELSE [k EXCEPT !.pc = "LookPath", !.i = k.i + 1]]
  /\ UNCHANGED <<err, mainVars, pipeVars, scaleVars>>

ConcNext == \E c \in 1..NCalls : ConcLookPath(c) \/ ConcTest(c)

ConcSpec == ConcInit /\ [][ConcNext]_vars

\* C6: concurrent calls share no mutable state, so under every interleaving
\* each call's getCmd returns what it returns when run alone.
C6_ConcurrentAsAlone ==
  \A c \in 1..NCalls :
    calls[c].pc = "done" =>
      calls[c].out = getCmd(installed, calls[c].formatIn, calls[c].formatOut,
                            calls[c].w, calls[c].h)

\* ------------------------------------ PipeSpec: feeder, subprocess, drains
PipeCap == 1
MaxOps == 3

\* The feeding done inline, ahead of cmd.Output: C9 must tell it from
\* OutputAwaitsFeeder.
OutputAfterFeeder == TRUE

\* The feeding runs in its own goroutine: cmd.Output does not wait for it.
OutputAwaitsFeeder == FALSE

PipeInit ==
  /\ MainStart(<<>>, [category |-> "text", extension |-> <<".", "t", "x", "t">>], {})
  /\ ConcIdle /\ ScaleIdle
  /\ mpc = "Start" /\ proc = "notstarted"
  /\ fst = "read" /\ fHold = 0
  /\ inLeft \in 0..MaxLen
  /\ stdinPipe = 0
  /\ subOp = "none" /\ subBudget \in 0..MaxOps
  /\ outPipe = 0 /\ errPipe = 0
  /\ dOut = "none" /\ dErr = "none"

PipeOnly == UNCHANGED <<mainVars, concVars, scaleVars>>

\* The feeder's n.Read: io.EOF ends io.Copy and the deferred Close runs.
FeederRead ==
  /\ PipeOnly
  /\ fst = "read"
  /\ IF inLeft = 0
     THEN fst' = "closed" /\ UNCHANGED <<fHold, inLeft>>
     ELSE \E k \in 1..Min(MaxChunk, inLeft) :
            fHold' = k /\ inLeft' = inLeft - k /\ fst' = "write"
  /\ UNCHANGED <<mpc, proc, stdinPipe, subOp, subBudget, outPipe, errPipe, dOut, dErr>>

\* The feeder's stdin.Write: it fails when the pipe has no read end left
\* (the start failed, or the subprocess is gone), it blocks while the pipe is
\* full, and else it moves what fits.
FeederWrite ==
  /\ PipeOnly
  /\ fst = "write"
  /\ IF proc \in {"failed", "exited"}
     THEN fst' = "closed" /\ fHold' = 0 /\ UNCHANGED stdinPipe
     ELSE /\ stdinPipe < PipeCap
          /\ LET j == Min(fHold, PipeCap - stdinPipe) IN
             /\ stdinPipe' = stdinPipe + j
             /\ fHold' = fHold - j
             /\ fst' = IF fHold = j THEN "read" ELSE "write"
  /\ UNCHANGED <<mpc, proc, inLeft, subOp, subBudget, outPipe, errPipe, dOut, dErr>>

\* cmd.Output's Start: the subprocess runs and os/exec's goroutines drain its
\* stdout and stderr, or the start fails and Output returns.
PipeStart ==
  /\ PipeOnly
  /\ mpc = "Start"
  /\ OutputAwaitsFeeder => fst = "closed"
  /\ \E ok \in BOOLEAN :
       IF ok
       THEN /\ proc' = "running" /\ subOp' = "idle"
            /\ dOut' = "run" /\ dErr' = "run"
            /\ mpc' = "Wait"
       ELSE /\ proc' = "failed"
            /\ mpc' = "Return"
            /\ UNCHANGED <<subOp, dOut, dErr>>
  /\ UNCHANGED <<fst, fHold, inLeft, stdinPipe, subBudget, outPipe, errPipe>>

\* The subprocess enters a system call.
SubChoose ==
  /\ PipeOnly
  /\ proc = "running" /\ subOp = "idle" /\ subBudget > 0
  /\ \E op \in {"read", "wout", "werr"} : subOp' = op
  /\ subBudget' = subBudget - 1
  /\ UNCHANGED <<mpc, proc, fst, fHold, inLeft, stdinPipe, outPipe, errPipe, dOut, dErr>>

\* Its read of stdin: bytes of the pipe, end of file once the feeder has
\* closed an empty pipe, blocked else.
SubRead ==
  /\ PipeOnly
  /\ subOp = "read"
  /\ IF stdinPipe > 0
     THEN \E j \in 1..stdinPipe : stdinPipe' = stdinPipe - j
     ELSE fst = "closed" /\ UNCHANGED stdinPipe
  /\ subOp' = "idle"
  /\ UNCHANGED <<mpc, proc, fst, fHold, inLeft, subBudget, outPipe, errPipe, dOut, dErr>>

\* Its write of one byte to stdout, blocked while the pipe is full.
SubWriteOut ==
  /\ PipeOnly
  /\ subOp = "wout" /\ outPipe < PipeCap
  /\ outPipe' = outPipe + 1
  /\ subOp' = "idle"
  /\ UNCHANGED <<mpc, proc, fst, fHold, inLeft, stdinPipe, subBudget, errPipe, dOut, dErr>>

\* Its write of one byte to stderr, blocked while the pipe is full.
SubWriteErr ==
  /\ PipeOnly
  /\ subOp = "werr" /\ errPipe < PipeCap
  /\ errPipe' = errPipe + 1
  /\ subOp' = "idle"
  /\ UNCHANGED <<mpc, proc, fst, fHold, inLeft, stdinPipe, subBudget, outPipe, dOut, dErr>>

\* It exits, between system calls.
SubExit ==
  /\ PipeOnly
  /\ proc = "running" /\ subOp = "idle"
  /\ proc' = "exited"
  /\ UNCHANGED <<mpc, fst, fHold, inLeft, stdinPipe, subOp, subBudget, outPipe, errPipe,
                 dOut, dErr>>

\* os/exec's goroutine copying stdout into the buffer of cmd.Output.
DrainOut ==
  /\ PipeOnly
  /\ dOut = "run"
  /\ IF outPipe > 0
     THEN outPipe' = 0 /\ UNCHANGED dOut
     ELSE proc = "exited" /\ dOut' = "done" /\ UNCHANGED outPipe
  /\ UNCHANGED <<mpc, proc, fst, fHold, inLeft, stdinPipe, subOp, subBudget, errPipe, dErr>>

\* os/exec's goroutine copying stderr into b.
DrainErr ==
  /\ PipeOnly
  /\ dErr = "run"
  /\ IF errPipe > 0
     THEN errPipe' = 0 /\ UNCHANGED dErr
     ELSE proc = "exited" /\ dErr' = "done" /\ UNCHANGED errPipe
  /\ UNCHANGED <<mpc, proc, fst, fHold, inLeft, stdinPipe, subOp, subBudget, outPipe, dOut>>

\* cmd.Output's Wait: the exit, then the two copying goroutines.
PipeWait ==
  /\ PipeOnly
  /\ mpc = "Wait" /\ proc = "exited" /\ dOut = "done" /\ dErr = "done"
  /\ mpc' = "Return"
  /\ UNCHANGED <<proc, fst, fHold, inLeft, stdinPipe, subOp, subBudget, outPipe, errPipe,
                 dOut, dErr>>

\* Convert returns.
PipeReturn ==
  /\ PipeOnly
  /\ mpc = "Return"
  /\ mpc' = "done"
  /\ UNCHANGED <<proc, fst, fHold, inLeft, stdinPipe, subOp, subBudget, outPipe, errPipe,
                 dOut, dErr>>

Feeder == FeederRead \/ FeederWrite
Subprocess == SubChoose \/ SubRead \/ SubWriteOut \/ SubWriteErr \/ SubExit
Output == PipeStart \/ PipeWait \/ PipeReturn

PipeNext == Feeder \/ Subprocess \/ DrainOut \/ DrainErr \/ Output

\* Every goroutine and the subprocess keep running while they can take a step.
PipeSpec ==
  /\ PipeInit /\ [][PipeNext]_vars
  /\ WF_vars(Feeder) /\ WF_vars(Subprocess)
  /\ WF_vars(DrainOut) /\ WF_vars(DrainErr) /\ WF_vars(Output)

MaxSide == 23

ScaleInit ==
  /\ MainStart(<<>>, [category |-> "text", extension |-> <<".", "t", "x", "t">>], {})
  /\ ConcIdle /\ PipeIdle
  /\ spc = "call"
  /\ sIn \in [width : 1..MaxSide, height : 1..MaxSide, maxRes : 1..MaxSide]
             \cup {[width |-> 10, height |-> 5, maxRes |-> 512]}
  /\ sOut = [w |-> 0, h |-> 0]

ScaleCall ==
  /\ spc = "call"
  /\ sOut' = scaleWithAspect(sIn.width, sIn.height, sIn.maxRes)
  /\ spc' = "done"
  /\ UNCHANGED <<sIn, mainVars, concVars, pipeVars>>

ScaleSpec == ScaleInit /\ [][ScaleCall]_vars

\* maxDimension * min(w/h, h/w), truncated, in exact arithmetic.
ExactShort(width, height, m) == (m * Min(width, height)) \div Max(width, height)

====
